---- MODULE Spec2Model ----
(***************************************************************************)
(* A model of pieces of the DevTools front end and of its test helpers:    *)
(*   - ui/legacy/FilterBar.ts (src/unnamed/part_000): FilterBar,           *)
(*     TextFilterUI, NamedBitSetFilterUIElement, NamedBitSetFilterUI and   *)
(*     CheckboxFilterUI;                                                   *)
(*   - the INPBreakdown insight component (first half of                   *)
(*     src/front_end/panels/timeline/components/insights/INPBreakdown.ts); *)
(*   - the e2e helper DevToolsPage (second half of that file):             *)
(*     waitForFunctionWithTries, waitForWithTries, performActionOnSelector,*)
(*     clickElement and hoverElement;                                      *)
(*   - ScreenshotError (src/unnamed/part_001).                             *)
(* Every handler of the source is one action; the pure parts of a handler  *)
(* are operators that the actions apply.                                   *)
(***************************************************************************)
EXTENDS Integers, Sequences, FiniteSets, TLC

VARIABLES
    \* NamedBitSetFilterUI
    isMac,                \* Host.Platform.isMac()
    hasSetting,           \* whether the constructor was given a setting
    settingValue,         \* the keys the backing setting stores as true
    allowedTypes,         \* NamedBitSetFilterUI.allowedTypes
    selected,             \* per bit element: does it carry the class 'selected'
    tabIndex,             \* per bit element: its tabIndex
    focused,              \* index of the bit element focus() was last called on, 0 if none
    \* CheckboxFilterUI
    activeWhenCheckedArg, \* the constructor's optional argument
    activeWhenChecked,    \* CheckboxFilterUI.activeWhenChecked
    checked,              \* CheckboxFilterUI.checkbox.checked
    \* FilterBar
    filters,              \* FilterBar.filters
    listeners,            \* per filter: how often FilterBar.filterChanged is registered on it
    filterButtonChecked,  \* checked state of FilterBar.filterButtonInternal
    \* observation of the most recent handler
    lastEvent,            \* the modifier keys of the event the handler was given, if any
    twinTypes,            \* allowedTypes of a filter without a setting that was built from the
                          \* same items and was given the same clicks, keys and resets
    lastOp,               \* the handler, its target, its multi-select flag and the selection before it
    dispatched,           \* what the handler dispatched and set on the button, in order
    \* DevToolsPage.waitForFunctionWithTries
    pc,                   \* position of the call
    callKind,             \* which entry point was called
    optTries,             \* options.tries
    defaulted,            \* whether the call was made without options
    tries,                \* the local counter 'tries'
    fnCalls,              \* how often fn has been invoked by this call
    inFlight,             \* how many invocations of fn have not resolved yet
    attempts,             \* the results of the resolved invocations, in order
    timerLeft,            \* milliseconds left of the pending this.timeout(100)
    waited,               \* milliseconds elapsed since the last invocation resolved
    startGap,             \* value of 'waited' when the current invocation started
    result,               \* what the call resolved to
    \* DevToolsPage.performActionOnSelector, clickElement, hoverElement
    actPc,                \* position of the call
    actKind,              \* which entry point was called
    dom,                  \* the node the selector matches at present (NoHandle: none)
    actElement,           \* the handle the current attempt acts on
    queries,              \* how often this call's waitFor has resolved
    actLog,               \* the attempts that ended: handle, query it came from, outcome
    returned,             \* the handle the call resolved to
    \* NamedBitSetFilterUIElement
    elItems,              \* #options.items, by item name
    elSetting,            \* #options.setting
    elUI,                 \* #namedBitSetFilterUI: whether it exists and what it was built from
    elLast,               \* the last call on the element and, for the setter, its argument
    \* INPBreakdown
    inpModel,             \* this.model: whether it is set, whether it has an event, the event
    inpOp,                \* the last call on the component
    inpOverlays,          \* what createOverlays() returned for this model
    inpRows,              \* the table rows renderContent() built for this model
    inpAskAi,             \* what hasAskAiSupport() returned for this model
    \* ScreenshotError
    shotOp,               \* the last call
    shotError,            \* the Error given to the factory: lengths of its message, its stack
                          \* and its cause's message
    shotArgs,             \* the two base64 images given to fromBase64Images
    shotObj,              \* the object the factory returned
    shotSaved,            \* the files the factory wrote to the tmp folder
    shotSummaryLen,       \* length of what toMiloSummary() returned for shotObj
    \* TextFilterUI
    suggestionProvider,   \* TextFilterUI.suggestionProvider
    textOp,               \* the last call on the text filter
    textRequest,          \* the arguments of the last completions request
    textCompletion,       \* the provider call that request made, and what it yielded
    \* FilterBar as a widget
    enabled,              \* FilterBar.enabled
    stateSetting,         \* value of the 'filter-bar-<name>-toggled' setting
    parentWidget,         \* whether the bar has a parent widget
    showingWidget,        \* FilterBar.showingWidget: "undefined", "true" or "false"
    widgetShown,          \* whether the bar's widget is shown
    showPc,               \* "showing" while a showWidget() call of updateFilterBar runs
    showOp,               \* the last call on the bar, nested ones included
    showLog,              \* the widget calls made since the last outermost call began
    nestedCalls           \* the calls that arrived during the showWidget() in progress, in order

filterVars == <<isMac, hasSetting, settingValue, allowedTypes, selected, tabIndex, focused,
                lastEvent, twinTypes>>
checkboxVars == <<activeWhenCheckedArg, activeWhenChecked, checked>>
barVars == <<filters, listeners, filterButtonChecked>>
pollVars == <<pc, callKind, optTries, defaulted, tries, fnCalls, inFlight, attempts, timerLeft, waited,
              startGap, result>>
actVars == <<actPc, actKind, dom, actElement, queries, actLog, returned>>
elemVars == <<elItems, elSetting, elUI, elLast>>
inpVars == <<inpModel, inpOp, inpOverlays, inpRows, inpAskAi>>
shotVars == <<shotOp, shotError, shotArgs, shotObj, shotSaved, shotSummaryLen>>
textVars == <<suggestionProvider, textOp, textRequest, textCompletion>>
showVars == <<enabled, stateSetting, parentWidget, showingWidget, widgetShown, showPc, showOp,
              showLog, nestedCalls>>
toolVars == <<actVars, elemVars, inpVars, shotVars, textVars, showVars>>
vars == <<filterVars, checkboxVars, barVars, lastOp, dispatched, pollVars, toolVars>>

(***************************************************************************)
(* Bounds of the model.                                                    *)
(***************************************************************************)
\* how many items (besides 'all') the bit-set filter is built from
NumItems == 2
\* how often FilterBar.addFilter may be called for one filter
MaxListeners == 2
\* longest FilterBar.filters
MaxFilters == 2
\* largest options.tries a call is made with
MaxTries == 3
\* how many attempts the model follows of a call that has no cap of its own
MaxCalls == 4
\* how many nodes the page may render for one selector
MaxNodes == 2
\* how many attempts the model follows of one click, hover or doubleClick
MaxAttempts == 3
\* how many items the options of a NamedBitSetFilterUIElement may hold
MaxOptionItems == 2
\* the largest timestamp and the largest duration of an interaction event, in microseconds
MaxMicro == 2
\* how far the lengths of texts spread from 0 and around the summary cutoff
LenSpread == 2

(***************************************************************************)
(* NamedBitSetFilterUI: names.                                             *)
(***************************************************************************)
ALL_TYPES == "all"

ItemPool == <<"xhr", "js", "css", "img">>

\* the constructor's items argument (their names)
items == [i \in 1..NumItems |-> ItemPool[i]]

\* typeFilterElements after the constructor: the 'all' bit, then one bit per item;
\* an element is identified with the type name typeFilterElementTypeNames gives it
typeFilterElements == <<ALL_TYPES>> \o items

BitIndex == 1..Len(typeFilterElements)

BitNames == {typeFilterElements[i] : i \in BitIndex}

\* a key that names no bit (a type the filter was not built with)
OtherType == "other"

TypeNames == BitNames \cup {OtherType}

NoTarget == "none"

\* the filters a FilterBar can be given
BITS == "bits"
CHECKBOX == "checkbox"
FilterIds == {BITS, CHECKBOX}

\* a mouse or keyboard event on a bit element: its target and modifier keys
Events == [target : BitNames, metaKey : BOOLEAN, ctrlKey : BOOLEAN, altKey : BOOLEAN,
           shiftKey : BOOLEAN]
\* the modifier keys of an event, and those of no event
Modifiers(e) ==
    [metaKey |-> e.metaKey, ctrlKey |-> e.ctrlKey, altKey |-> e.altKey, shiftKey |-> e.shiftKey]
NoModifiers == [metaKey |-> FALSE, ctrlKey |-> FALSE, altKey |-> FALSE, shiftKey |-> FALSE]
\* the events the filter bar is driven with: it is not on a Mac, and the Ctrl key alone
\* decides how a click is handled
BarEvents == {e \in Events : ~e.metaKey /\ ~e.altKey /\ ~e.shiftKey}

Keys == {"ArrowLeft", "ArrowUp", "ArrowRight", "ArrowDown", "Tab", "Enter", " ", "a"}

\* the keys that do not move the focus
ActivationKeys == {"Enter", " ", "a"}

BoolStr(b) == IF b THEN "true" ELSE "false"

RECURSIVE Repeat(_, _)
Repeat(s, n) == IF n <= 0 THEN <<>> ELSE s \o Repeat(s, n - 1)

(***************************************************************************)
(* isActive() of the filters, FilterBar.hasActiveFilter.                   *)
(***************************************************************************)
NamedBitSetIsActive == ALL_TYPES \notin allowedTypes

\* accept that forgets the 'all' sentinel
acceptListedOnly(typeName) == typeName \in allowedTypes

accept(typeName) == ALL_TYPES \in allowedTypes \/ typeName \in allowedTypes

CheckboxIsActive == activeWhenChecked = checked

isActive(f) == IF f = BITS THEN NamedBitSetIsActive ELSE CheckboxIsActive

hasActiveFilter == \E i \in 1..Len(filters) : isActive(filters[i])

(***************************************************************************)
(* Events.  A filter dispatches FILTER_CHANGED to its listeners; each      *)
(* registration of FilterBar.filterChanged runs once per event.            *)
(***************************************************************************)
\* filterChanged that dispatches CHANGED before it updates the button
filterChangedDispatchFirst(active) ==
    << <<"CHANGED", "FilterBar">>, <<"setChecked", BoolStr(active)>> >>

\* FilterBar.filterChanged, given what hasActiveFilter() returns when it runs:
\* updateFilterButton() and then the CHANGED event
filterChanged(active) == << <<"setChecked", BoolStr(active)>>, <<"CHANGED", "FilterBar">> >>

\* ObjectWrapper.dispatchEventToListeners of filter f with n registrations of
\* FilterBar.filterChanged: the listeners run synchronously, one after the other
dispatchEventToListeners(f, n, active) ==
    << <<"FILTER_CHANGED", f>> >> \o Repeat(filterChanged(active), n)

\* filter f dispatches FILTER_CHANGED after its own state has been updated
FireFilterChanged(f) ==
    /\ dispatched' = dispatchEventToListeners(f, listeners[f], hasActiveFilter')
    /\ filterButtonChecked' = IF listeners[f] > 0 THEN hasActiveFilter' ELSE filterButtonChecked

(***************************************************************************)
(* NamedBitSetFilterUI.                                                    *)
(***************************************************************************)
\* toggleTypeFilter that only ever adds the clicked type
toggledTypesNeverRemoves(allowed, typeName, allowMultiSelect) ==
    LET kept == IF allowMultiSelect /\ typeName # ALL_TYPES
                THEN allowed \ {ALL_TYPES}
                ELSE {}
    IN  kept \cup {typeName}

\* a toggle that does not start from the empty set on a plain click
toggledTypesPlainKeeps(allowed, typeName, allowMultiSelect) ==
    LET kept == allowed \ {ALL_TYPES}
        flipped == IF typeName \in kept THEN kept \ {typeName} ELSE kept \cup {typeName}
    IN  IF Cardinality(flipped) = 0 THEN flipped \cup {ALL_TYPES} ELSE flipped

\* a toggle that leaves the 'all' sentinel in the set
toggledTypesKeepsAll(allowed, typeName, allowMultiSelect) ==
    LET kept == IF allowMultiSelect /\ typeName # ALL_TYPES THEN allowed ELSE {}
        flipped == IF typeName \in kept THEN kept \ {typeName} ELSE kept \cup {typeName}
    IN  IF Cardinality(flipped) = 0 THEN flipped \cup {ALL_TYPES} ELSE flipped

\* toggleTypeFilter up to the write-back: this.allowedTypes after the three ifs
toggledTypes(allowed, typeName, allowMultiSelect) ==
    LET kept == IF allowMultiSelect /\ typeName # ALL_TYPES
                THEN allowed \ {ALL_TYPES}
                ELSE {}
        flipped == IF typeName \in kept THEN kept \ {typeName} ELSE kept \cup {typeName}
    IN  IF Cardinality(flipped) = 0 THEN flipped \cup {ALL_TYPES} ELSE flipped

\* a loop over the bit elements that stops before the last one
typesFromSettingButLast(value) ==
    {typeFilterElements[i] :
        i \in {j \in BitIndex \ {Len(typeFilterElements)} : typeFilterElements[j] \in value}}

\* settingChanged: the names of the bit elements that the setting stores as true
typesFromSetting(value) ==
    {typeFilterElements[i] : i \in {j \in BitIndex : typeFilterElements[j] \in value}}

\* update without its first if
updatedTypesUnnormalised(allowed) == allowed

\* update: the first if
updatedTypes(allowed) ==
    IF Cardinality(allowed) = 0 \/ ALL_TYPES \in allowed THEN {ALL_TYPES} ELSE allowed

\* update that shows every bit selected while 'all' is selected
selectedClassesAllMeansEvery(allowed) ==
    [i \in BitIndex |-> typeFilterElements[i] \in allowed \/ ALL_TYPES \in allowed]

\* update: the loop over the bit elements
selectedClasses(allowed) == [i \in BitIndex |-> typeFilterElements[i] \in allowed]

\* update that dispatches only when the selection changed
updateOnlyOnChange(allowed) ==
    /\ allowedTypes' = updatedTypes(allowed)
    /\ selected' = selectedClasses(allowedTypes')
    /\ IF allowedTypes' = allowedTypes
       THEN dispatched' = <<>> /\ UNCHANGED filterButtonChecked
       ELSE FireFilterChanged(BITS)

update(allowed) ==
    /\ allowedTypes' = updatedTypes(allowed)
    /\ selected' = selectedClasses(allowedTypes')
    /\ FireFilterChanged(BITS)

\* runs as the change listener of the setting, after the setting took its new value
settingChanged == update(typesFromSetting(settingValue'))

\* Setting.set(value): stores the value and notifies the change listeners
settingSet(value) ==
    /\ settingValue' = value
    /\ settingChanged

toggleTypeFilter(typeName, allowMultiSelect) ==
    LET toggled == toggledTypes(allowedTypes, typeName, allowMultiSelect)
    IN  IF hasSetting
        THEN settingSet(toggled)
        ELSE /\ UNCHANGED settingValue
             /\ update(toggled)

\* a test that does not look at the Shift key
multiSelectIgnoresShift(e) ==
    IF isMac
    THEN e.metaKey /\ ~e.ctrlKey /\ ~e.altKey
    ELSE e.ctrlKey /\ ~e.metaKey /\ ~e.altKey

\* onTypeFilterClicked: is the click a multi-select click
multiSelect(e) ==
    IF isMac
    THEN e.metaKey /\ ~e.ctrlKey /\ ~e.altKey /\ ~e.shiftKey
    ELSE e.ctrlKey /\ ~e.metaKey /\ ~e.altKey /\ ~e.shiftKey

onTypeFilterClicked(e) == toggleTypeFilter(e.target, multiSelect(e))

\* keyFocusNextBit for a target that is the index-th bit element
keyFocusNextBit(index, selectPrevious) ==
    LET nextIndex == IF selectPrevious THEN index - 1 ELSE index + 1
    IN  IF nextIndex < 1 \/ nextIndex > Len(typeFilterElements)
        THEN UNCHANGED <<tabIndex, focused>>
        ELSE /\ tabIndex' = [tabIndex EXCEPT ![nextIndex] = 0, ![index] = -1]
             /\ focused' = nextIndex

isEnterOrSpaceKey(key) == key = "Enter" \/ key = " "

indexOf(typeName) == CHOOSE i \in BitIndex : typeFilterElements[i] = typeName

\* the state a NamedBitSetFilterUI is in when its constructor returns
constructedTypes(withSetting, value) ==
    IF withSetting
    THEN updatedTypes(typesFromSetting(value))
    ELSE updatedTypes(toggledTypes({}, ALL_TYPES, FALSE))

\* toggleTypeFilter of a filter without a setting: update() on the toggled set
twinToggled(typeName, allowMultiSelect) ==
    updatedTypes(toggledTypes(twinTypes, typeName, allowMultiSelect))

Op(name, target, toggle) ==
    [op |-> name, target |-> target, toggle |-> toggle, before |-> allowedTypes]

(***************************************************************************)
(* Actions on the NamedBitSetFilterUI.                                     *)
(***************************************************************************)
\* a click on a bit element
Click(e) ==
    /\ UNCHANGED <<isMac, hasSetting, tabIndex, focused, checkboxVars, filters, listeners,
                   pollVars, toolVars>>
    /\ lastOp' = Op("click", e.target, multiSelect(e))
    /\ lastEvent' = Modifiers(e)
    /\ twinTypes' = twinToggled(e.target, multiSelect(e))
    /\ onTypeFilterClicked(e)

\* a keydown on a bit element: onTypeFilterKeydown. Only the Enter/Space branch reads
\* modifier keys other than shiftKey, so the other keys come without them.
Keydown(e, key) ==
    /\ isEnterOrSpaceKey(key) \/ (~e.metaKey /\ ~e.ctrlKey /\ ~e.altKey)
    /\ lastEvent' = Modifiers(e)
    /\ twinTypes' = IF isEnterOrSpaceKey(key)
                    THEN twinToggled(e.target, multiSelect(e))
                    ELSE twinTypes
    /\ UNCHANGED <<isMac, hasSetting, checkboxVars, filters, listeners, pollVars, toolVars>>
    /\ IF key \in {"ArrowLeft", "ArrowUp"} \/ (key = "Tab" /\ e.shiftKey)
       THEN /\ keyFocusNextBit(indexOf(e.target), TRUE)
            /\ lastOp' = Op("focus", e.target, FALSE)
            /\ dispatched' = <<>>
            /\ UNCHANGED <<settingValue, allowedTypes, selected, filterButtonChecked>>
       ELSE IF key \in {"ArrowRight", "ArrowDown"} \/ (key = "Tab" /\ ~e.shiftKey)
       THEN /\ keyFocusNextBit(indexOf(e.target), FALSE)
            /\ lastOp' = Op("focus", e.target, FALSE)
            /\ dispatched' = <<>>
            /\ UNCHANGED <<settingValue, allowedTypes, selected, filterButtonChecked>>
       ELSE IF isEnterOrSpaceKey(key)
       THEN /\ UNCHANGED <<tabIndex, focused>>
            /\ lastOp' = Op("key", e.target, multiSelect(e))
            /\ onTypeFilterClicked(e)
       ELSE /\ lastOp' = Op("ignored", e.target, FALSE)
            /\ dispatched' = <<>>
            /\ UNCHANGED <<settingValue, allowedTypes, selected, filterButtonChecked,
                           tabIndex, focused>>

\* NamedBitSetFilterUI.reset()
Reset ==
    /\ UNCHANGED <<isMac, hasSetting, tabIndex, focused, checkboxVars, filters, listeners,
                   pollVars, toolVars>>
    /\ lastOp' = Op("reset", NoTarget, FALSE)
    /\ lastEvent' = NoModifiers
    /\ twinTypes' = twinToggled(ALL_TYPES, FALSE)
    /\ toggleTypeFilter(ALL_TYPES, FALSE)

\* some other code sets the backing setting to value
SettingSet(value) ==
    /\ hasSetting
    /\ UNCHANGED <<isMac, hasSetting, tabIndex, focused, checkboxVars, filters, listeners,
                   pollVars, toolVars>>
    /\ lastOp' = Op("setting", NoTarget, FALSE)
    /\ lastEvent' = NoModifiers
    /\ UNCHANGED twinTypes
    /\ settingSet(value)

(***************************************************************************)
(* CheckboxFilterUI.                                                       *)
(***************************************************************************)
ActiveWhenCheckedArgs == {"undefined", "false", "true"}

\* a constructor that takes an omitted activeWhenChecked for true
BooleanOfDefaultTrue(arg) == arg # "false"

\* Boolean(activeWhenChecked) in the constructor
BooleanOf(arg) == arg = "true"

\* the user toggles the checkbox: the 'change' listener fireUpdated runs
CheckboxChange ==
    /\ UNCHANGED <<filterVars, activeWhenCheckedArg, activeWhenChecked, filters, listeners,
                   pollVars, toolVars>>
    /\ lastOp' = Op("change", CHECKBOX, FALSE)
    /\ checked' = ~checked
    /\ FireFilterChanged(CHECKBOX)

\* CheckboxFilterUI.setChecked(value): sets the property, no 'change' event follows
SetChecked(value) ==
    /\ UNCHANGED <<filterVars, activeWhenCheckedArg, activeWhenChecked, barVars, pollVars, toolVars>>
    /\ lastOp' = Op("setChecked", CHECKBOX, FALSE)
    /\ checked' = value
    /\ dispatched' = <<>>

(***************************************************************************)
(* FilterBar.                                                              *)
(***************************************************************************)
\* updateFilterButton: filterButtonInternal.setChecked(hasActiveFilter())
updateFilterButton ==
    /\ filterButtonChecked' = hasActiveFilter'
    /\ dispatched' = << <<"setChecked", BoolStr(hasActiveFilter')>> >>

\* FilterBar.addFilter(f)
AddFilter(f) ==
    /\ Len(filters) < MaxFilters
    /\ listeners[f] < MaxListeners
    /\ UNCHANGED <<filterVars, checkboxVars, pollVars, toolVars>>
    /\ lastOp' = Op("addFilter", f, FALSE)
    /\ filters' = Append(filters, f)
    /\ listeners' = [listeners EXCEPT ![f] = @ + 1]
    /\ updateFilterButton

\* FilterBar.clear()
Clear ==
    /\ UNCHANGED <<filterVars, checkboxVars, listeners, pollVars, toolVars>>
    /\ lastOp' = Op("clear", NoTarget, FALSE)
    /\ filters' = <<>>
    /\ updateFilterButton

(***************************************************************************)
(* Initial states: the objects as their constructors leave them.           *)
(***************************************************************************)
\* no handle: what a query that found nothing, or a caught exception, yields
NoHandle == 0

\* no call of performActionOnSelector, clickElement or hoverElement has been made
ActIdle ==
    /\ actPc = "idle"
    /\ actKind = "none"
    /\ dom = NoHandle
    /\ actElement = NoHandle
    /\ queries = 0
    /\ actLog = <<>>
    /\ returned = NoHandle

\* #namedBitSetFilterUI is undefined
NoUI == [created |-> FALSE, items |-> <<>>, setting |-> "undefined"]

\* a NamedBitSetFilterUIElement as constructed: #options = {items: []}
ElemConstructed ==
    /\ elItems = <<>>
    /\ elSetting = "undefined"
    /\ elUI = NoUI
    /\ elLast = [op |-> "constructor", items |-> <<>>, setting |-> "undefined",
                 differ |-> FALSE]

\* the fields of an interaction event that the component reads, when there is no event
NoEvent == [ts |-> 0, inputDelay |-> 0, mainThreadHandling |-> 0, presentationDelay |-> 0]

\* this.model is not set
NoModel == [present |-> FALSE, hasEvent |-> FALSE, event |-> NoEvent]

\* an INPBreakdown component that was given no model and has not been called
InpConstructed ==
    /\ inpModel = NoModel
    /\ inpOp = "constructor"
    /\ inpOverlays = <<>>
    /\ inpRows = <<>>
    /\ inpAskAi = "none"

\* no Error: the lengths of an absent message and stack
NoError == [messageLen |-> 0, stackLen |-> 0, innerLen |-> 0]

\* a base64 image that is not given (undefined)
NoImage == [given |-> FALSE, text |-> <<>>]

\* no object returned yet
NoObject ==
    [class |-> "none", original |-> FALSE, keys |-> {}, paths |-> {}, messageLen |-> 0,
     stackLen |-> 0, cause |-> "undefined"]

\* no factory of ScreenshotError has been called
ShotIdle ==
    /\ shotOp = "none"
    /\ shotError = NoError
    /\ shotArgs = [inspected |-> NoImage, devtools |-> NoImage]
    /\ shotObj = NoObject
    /\ shotSaved = {}
    /\ shotSummaryLen = -1

\* no completions request, and no call of a provider
NoRequest == [expression |-> "", prefix |-> "", force |-> "undefined"]
NoCompletion ==
    [provider |-> "null", expression |-> "", prefix |-> "", force |-> "undefined",
     suggestions |-> "none"]

\* a TextFilterUI as constructed: this.suggestionProvider = null
TextConstructed ==
    /\ suggestionProvider = "null"
    /\ textOp = "constructor"
    /\ textRequest = NoRequest
    /\ textCompletion = NoCompletion

\* new FilterBar(name): enabled, the setting at its default, no parent widget yet
ShowConstructed ==
    /\ enabled = TRUE
    /\ stateSetting = FALSE
    /\ parentWidget = FALSE
    /\ showingWidget = "undefined"
    /\ widgetShown = FALSE
    /\ showPc = "idle"
    /\ showOp = "constructor"
    /\ showLog = <<>>
    /\ nestedCalls = <<>>

ToolsIdle ==
    /\ ActIdle /\ ElemConstructed /\ InpConstructed /\ ShotIdle /\ TextConstructed
    /\ ShowConstructed

PollIdle ==
    /\ pc = "idle"
    /\ callKind = "none"
    /\ optTries = 0
    /\ defaulted = FALSE
    /\ tries = 0
    /\ fnCalls = 0
    /\ inFlight = 0
    /\ attempts = <<>>
    /\ timerLeft = 0
    /\ waited = 0
    /\ startGap = 0
    /\ result = "pending"

\* new NamedBitSetFilterUI(items, setting)
NamedBitSetConstructed ==
    /\ allowedTypes = constructedTypes(hasSetting, settingValue)
    /\ selected = selectedClasses(allowedTypes)
    /\ tabIndex = [i \in BitIndex |-> IF i = 1 THEN 0 ELSE -1]
    /\ focused = 0
    /\ lastEvent = NoModifiers
    /\ twinTypes = constructedTypes(FALSE, {})

\* new CheckboxFilterUI(title, activeWhenChecked, setting): the checkbox starts checked
\* without a setting and as the setting says with one
CheckboxConstructed ==
    /\ activeWhenCheckedArg \in ActiveWhenCheckedArgs
    /\ activeWhenChecked = BooleanOf(activeWhenCheckedArg)
    /\ checked \in BOOLEAN

\* new FilterBar(name): no filters, the button unchecked
FilterBarConstructed ==
    /\ filters = <<>>
    /\ listeners = [f \in FilterIds |-> 0]
    /\ filterButtonChecked = FALSE

\* a NamedBitSetFilterUI on its own, with or without a backing setting
InitFilter ==
    /\ isMac \in BOOLEAN
    /\ hasSetting \in BOOLEAN
    /\ settingValue \in (IF hasSetting THEN SUBSET TypeNames ELSE {{}})
    /\ NamedBitSetConstructed
    /\ activeWhenCheckedArg = "undefined"
    /\ activeWhenChecked = BooleanOf(activeWhenCheckedArg)
    /\ checked = TRUE
    /\ FilterBarConstructed
    /\ lastOp = [op |-> "constructor", target |-> NoTarget, toggle |-> FALSE, before |-> {}]
    /\ dispatched = dispatchEventToListeners(BITS, 0, FALSE)
    /\ PollIdle
    /\ ToolsIdle

\* the selection of a NamedBitSetFilterUI: every handler that reaches toggleTypeFilter
\* or settingChanged (the arrow and Tab keys only move the focus, see SpecKeys)
NextFilter ==
    \/ \E e \in Events : Click(e)
    \/ \E e \in Events, key \in ActivationKeys : Keydown(e, key)
    \/ Reset
    \/ \E value \in SUBSET TypeNames : SettingSet(value)

SpecFilter == InitFilter /\ [][NextFilter]_vars

\* a NamedBitSetFilterUI backed by a setting that stores any keys, next to its twin
\* without a setting: both are given the same clicks and Enter/Space keys
InitTwin ==
    /\ InitFilter
    /\ hasSetting

NextTwin ==
    \/ \E e \in Events : Click(e)
    \/ \E e \in Events, key \in ActivationKeys : Keydown(e, key)

SpecTwin == InitTwin /\ [][NextTwin]_vars

\* keyboard handling of a NamedBitSetFilterUI without a setting, every key
InitKeys ==
    /\ InitFilter
    /\ ~hasSetting

NextKeys ==
    \/ \E e \in Events : Click(e)
    \/ \E e \in Events, key \in Keys : Keydown(e, key)
    \/ Reset

SpecKeys == InitKeys /\ [][NextKeys]_vars

\* a FilterBar, a NamedBitSetFilterUI without a setting and a CheckboxFilterUI
InitBar ==
    /\ isMac = FALSE
    /\ hasSetting = FALSE
    /\ settingValue = {}
    /\ NamedBitSetConstructed
    /\ CheckboxConstructed
    /\ FilterBarConstructed
    /\ lastOp = [op |-> "constructor", target |-> NoTarget, toggle |-> FALSE, before |-> {}]
    /\ dispatched = <<>>
    /\ PollIdle
    /\ ToolsIdle

NextBar ==
    \/ \E f \in FilterIds : AddFilter(f)
    \/ Clear
    \/ \E e \in BarEvents : Click(e)
    \/ Reset
    \/ CheckboxChange
    \/ \E value \in BOOLEAN : SetChecked(value)

SpecBar == InitBar /\ [][NextBar]_vars

(***************************************************************************)
(* DevToolsPage.waitForFunctionWithTries and waitForWithTries.             *)
(* asyncScope.exec(callable) runs callable and hands its outcome through.  *)
(***************************************************************************)
\* the delay between two attempts: this.timeout(100)
TimeoutMs == 100

\* the step in which the model lets time pass
TickMs == TimeoutMs \div 2

CallKinds == {"waitForFunctionWithTries", "waitForWithTries"}

\* what this.$(selector, root, handler) resolves to: no element, or a handle
QueryResults == {"null", "handle1", "handle2"}

\* what a caller's fn resolves to
FnResults == {"undefined", "null", "false", "handle1", "handle2"}

\* if (result)
Truthy(v) == v \notin {"undefined", "null", "false"}

\* waitForWithTries: element || undefined
orUndefined(element) == IF Truthy(element) THEN element ELSE "undefined"

\* what fn resolves to in a call of the given kind, from what its query found
fnResult(kind, v) == IF kind = "waitForWithTries" THEN orUndefined(v) ELSE v

FnInputs(kind) == IF kind = "waitForWithTries" THEN QueryResults ELSE FnResults

\* a loop condition that is off by one
loopContinuesInclusive(t, n) == t <= n

\* the loop condition, tries++ < options.tries, on the value before the increment
loopContinues(t, n) == t < n

\* a loop that does not await the timeout
afterFalsyResultNoWait == "loop"

\* where the call is after an attempt resolved to a falsy result: awaiting the timeout
afterFalsyResult == "timeout"

\* a loop that fails when the attempts are used up
exhaustedResultError == "error"

\* what the call resolves to when the loop ends
exhaustedResult == "undefined"

\* Number.MAX_SAFE_INTEGER is 2^53 - 1, beyond the integers TLC has; the model takes the
\* largest integer of TLC, which is likewise beyond every count of attempts it follows
MAX_SAFE_INTEGER == 2147483647

\* a default of Number.MIN_SAFE_INTEGER
defaultTriesMinSafeInteger == -MAX_SAFE_INTEGER

\* options: {tries: number} = {tries: Number.MAX_SAFE_INTEGER}
defaultTries == MAX_SAFE_INTEGER

FilterIdle ==
    /\ isMac = FALSE
    /\ hasSetting = FALSE
    /\ settingValue = {}
    /\ NamedBitSetConstructed
    /\ activeWhenCheckedArg = "undefined"
    /\ activeWhenChecked = BooleanOf(activeWhenCheckedArg)
    /\ checked = TRUE
    /\ FilterBarConstructed
    /\ lastOp = [op |-> "constructor", target |-> NoTarget, toggle |-> FALSE, before |-> {}]
    /\ dispatched = <<>>

uiVars == <<filterVars, checkboxVars, barVars, lastOp, dispatched>>

\* waitForFunctionWithTries(fn, {tries: n}) or waitForWithTries(selector, root, {tries: n})
Call(kind, n) ==
    /\ pc \in {"idle", "done", "threw"}
    /\ pc' = "loop"
    /\ callKind' = kind
    /\ optTries' = n
    /\ defaulted' = FALSE
    /\ tries' = 0
    /\ fnCalls' = 0
    /\ inFlight' = 0
    /\ attempts' = <<>>
    /\ timerLeft' = 0
    /\ waited' = 0
    /\ startGap' = 0
    /\ result' = "pending"
    /\ UNCHANGED <<uiVars, toolVars>>

\* waitForFunctionWithTries(fn) or waitForWithTries(selector): options takes its default
CallDefault(kind) ==
    /\ pc \in {"idle", "done", "threw"}
    /\ pc' = "loop"
    /\ callKind' = kind
    /\ optTries' = defaultTries
    /\ defaulted' = TRUE
    /\ tries' = 0
    /\ fnCalls' = 0
    /\ inFlight' = 0
    /\ attempts' = <<>>
    /\ timerLeft' = 0
    /\ waited' = 0
    /\ startGap' = 0
    /\ result' = "pending"
    /\ UNCHANGED <<uiVars, toolVars>>

\* while (tries++ < options.tries): the next attempt starts, or the loop ends
WhileHead ==
    /\ pc = "loop"
    /\ loopContinues(tries, optTries) => fnCalls < MaxCalls
    /\ tries' = tries + 1
    /\ IF loopContinues(tries, optTries)
       THEN /\ fnCalls' = fnCalls + 1
            /\ inFlight' = inFlight + 1
            /\ startGap' = waited
            /\ pc' = "fn"
            /\ UNCHANGED result
       ELSE /\ result' = exhaustedResult
            /\ pc' = "done"
            /\ UNCHANGED <<fnCalls, inFlight, startGap>>
    /\ UNCHANGED <<callKind, optTries, defaulted, attempts, timerLeft, waited, uiVars, toolVars>>

\* await fn() resolves; v is what fn (or its query) found
FnResolves(v) ==
    /\ pc = "fn"
    /\ v \in FnInputs(callKind)
    /\ inFlight' = inFlight - 1
    /\ attempts' = Append(attempts, fnResult(callKind, v))
    /\ IF Truthy(fnResult(callKind, v))
       THEN /\ result' = fnResult(callKind, v)
            /\ pc' = "done"
            /\ UNCHANGED <<timerLeft, waited>>
       ELSE /\ timerLeft' = TimeoutMs
            /\ waited' = 0
            /\ pc' = afterFalsyResult
            /\ UNCHANGED result
    /\ UNCHANGED <<callKind, optTries, defaulted, tries, fnCalls, startGap, uiVars, toolVars>>

\* await fn() rejects: the exception leaves the loop and the call
FnRejects ==
    /\ pc = "fn"
    /\ inFlight' = inFlight - 1
    /\ result' = "error"
    /\ pc' = "threw"
    /\ UNCHANGED <<callKind, optTries, defaulted, tries, fnCalls, attempts, timerLeft, waited,
                   startGap, uiVars, toolVars>>

\* time passes while the call awaits the timeout
Tick ==
    /\ pc = "timeout"
    /\ waited < TimeoutMs + TickMs
    /\ waited' = waited + TickMs
    /\ timerLeft' = IF timerLeft > TickMs THEN timerLeft - TickMs ELSE 0
    /\ UNCHANGED <<pc, callKind, optTries, defaulted, tries, fnCalls, inFlight, attempts,
                   startGap, result, uiVars, toolVars>>

\* the timeout has elapsed and the loop goes on
TimeoutResolves ==
    /\ pc = "timeout"
    /\ timerLeft = 0
    /\ pc' = "loop"
    /\ UNCHANGED <<callKind, optTries, defaulted, tries, fnCalls, inFlight, attempts, timerLeft,
                   waited, startGap, result, uiVars, toolVars>>

InitPoll == FilterIdle /\ PollIdle /\ ToolsIdle

NextPoll ==
    \/ \E kind \in CallKinds, n \in -1..MaxTries : Call(kind, n)
    \/ \E kind \in CallKinds : CallDefault(kind)
    \/ WhileHead
    \/ \E v \in FnResults \cup QueryResults : FnResolves(v)
    \/ FnRejects
    \/ Tick
    \/ TimeoutResolves

SpecPoll == InitPoll /\ [][NextPoll]_vars

\* the loop's own steps and the timer are run by the event loop; whether fn ever resolves
\* is up to the caller's fn
FairPoll == WF_vars(WhileHead) /\ WF_vars(Tick) /\ WF_vars(TimeoutResolves)

SpecPollFair == InitPoll /\ [][NextPoll]_vars /\ FairPoll

(***************************************************************************)
(* DevToolsPage.performActionOnSelector (click, hover, doubleClick) and the *)
(* deprecated clickElement and hoverElement.  Each runs its attempt under   *)
(* waitForFunction, which repeats the attempt, after a timeout, until it    *)
(* resolves to a truthy value.                                              *)
(***************************************************************************)
SelectorActions == {"click", "hover", "doubleClick"}
ElementActions == {"clickElement", "hoverElement"}
Nodes == 1..MaxNodes

notActVars == <<uiVars, pollVars, elemVars, inpVars, shotVars, textVars, showVars>>

\* a catch that hands out the handle the action failed on
caughtResultElement(el) == el

\* catch { return undefined; }
caughtResult(el) == NoHandle

Attempt(outcome) == [handle |-> actElement, query |-> queries, outcome |-> outcome]

\* click(selector), hover(selector), doubleClick(selector): performActionOnSelector
PerformActionOnSelector(kind) ==
    /\ actPc \in {"idle", "done"}
    /\ actKind' = kind
    /\ actPc' = "waitFor"
    /\ actElement' = NoHandle
    /\ queries' = 0
    /\ actLog' = <<>>
    /\ returned' = NoHandle
    /\ UNCHANGED <<dom, notActVars>>

\* clickElement(element), hoverElement(element)
ActOnElement(kind, el) ==
    /\ actPc \in {"idle", "done"}
    /\ actKind' = kind
    /\ actPc' = "action"
    /\ actElement' = el
    /\ queries' = 0
    /\ actLog' = <<>>
    /\ returned' = NoHandle
    /\ UNCHANGED <<dom, notActVars>>

\* const element = await this.waitFor(selector, ...): resolves once the selector matches
WaitForResolves ==
    /\ actPc = "waitFor"
    /\ dom # NoHandle
    /\ actElement' = dom
    /\ queries' = queries + 1
    /\ actPc' = "action"
    /\ UNCHANGED <<actKind, dom, actLog, returned, notActVars>>

\* await action(element), element.click(), element.hover() completes: the node is attached
ActionCompletes ==
    /\ actPc = "action"
    /\ actElement = dom
    /\ actPc' = "drain"
    /\ UNCHANGED <<actKind, dom, actElement, queries, actLog, returned, notActVars>>

\* what follows an exception in the try block: the catch yields the attempt's result
Caught(outcome) ==
    /\ actLog' = Append(actLog, Attempt(outcome))
    /\ IF actKind \in SelectorActions /\ caughtResult(actElement) # NoHandle
       THEN /\ actPc' = "done"
            /\ returned' = caughtResult(actElement)
       ELSE /\ actPc' = "timeout"
            /\ UNCHANGED returned
    /\ UNCHANGED <<actKind, dom, actElement, queries, notActVars>>

\* the action throws: the node is detached, hidden or covered
ActionThrows ==
    /\ actPc = "action"
    /\ Caught("actionThrew")

\* await this.drainTaskQueue() completes: the attempt returns element, or true
DrainCompletes ==
    /\ actPc = "drain"
    /\ actLog' = Append(actLog, Attempt("ok"))
    /\ returned' = IF actKind \in SelectorActions THEN actElement ELSE NoHandle
    /\ actPc' = "done"
    /\ UNCHANGED <<actKind, dom, actElement, queries, notActVars>>

\* await this.drainTaskQueue() throws
DrainThrows ==
    /\ actPc = "drain"
    /\ Caught("drainThrew")

\* waitForFunction: the attempt resolved to a falsy value and is made again
NextAttempt ==
    /\ actPc = "timeout"
    /\ Len(actLog) < MaxAttempts
    /\ actPc' = IF actKind \in SelectorActions THEN "waitFor" ELSE "action"
    /\ UNCHANGED <<actKind, dom, actElement, queries, actLog, returned, notActVars>>

\* the page renders: the selector now matches another node, or none
DomChanges(n) ==
    /\ n # dom
    /\ dom' = n
    /\ UNCHANGED <<actPc, actKind, actElement, queries, actLog, returned, notActVars>>

InitAct == FilterIdle /\ PollIdle /\ ToolsIdle

NextAct ==
    \/ \E kind \in SelectorActions : PerformActionOnSelector(kind)
    \/ \E kind \in ElementActions, el \in Nodes : ActOnElement(kind, el)
    \/ WaitForResolves
    \/ ActionCompletes
    \/ ActionThrows
    \/ DrainCompletes
    \/ DrainThrows
    \/ NextAttempt
    \/ \E n \in Nodes \cup {NoHandle} : DomChanges(n)

SpecAct == InitAct /\ [][NextAct]_vars

(***************************************************************************)
(* NamedBitSetFilterUIElement: the options setter and                      *)
(* getOrCreateNamedBitSetFilterUI.                                         *)
(***************************************************************************)
ItemNames == {ItemPool[i] : i \in 1..NumItems}
\* the item arrays a client may pass
ItemArrays == UNION {[1..n -> ItemNames] : n \in 0..MaxOptionItems}
\* the settings a client may pass: none, or one of two setting objects
Settings == {"undefined", "setting1", "setting2"}

notElemVars == <<uiVars, pollVars, actVars, inpVars, shotVars, textVars, showVars>>

\* an Item is a plain object {name, label, title, jslogContext}: Object.prototype.toString
itemToString(item) == "[object Object]"

\* Array.prototype.toString: the elements converted and joined by commas, held here as the
\* sequence of the converted elements (no converted element holds a comma)
itemsToString(its) == [i \in 1..Len(its) |-> itemToString(its[i])]

\* the setter's test for 'the same' options
sameOptions(its, setting) ==
    itemsToString(elItems) = itemsToString(its) /\ elSetting = setting

\* set options(options)
SetOptions(its, setting) ==
    /\ elLast' = [op |-> "options", items |-> its, setting |-> setting,
                  differ |-> (its # elItems \/ setting # elSetting)]
    /\ IF sameOptions(its, setting)
       THEN UNCHANGED <<elItems, elSetting, elUI>>
       ELSE /\ elItems' = its
            /\ elSetting' = setting
            /\ elUI' = NoUI
    /\ UNCHANGED notElemVars

\* getOrCreateNamedBitSetFilterUI()
GetOrCreateNamedBitSetFilterUI ==
    /\ elLast' = [op |-> "getOrCreate", items |-> elLast.items, setting |-> elLast.setting,
                  differ |-> elLast.differ]
    /\ elUI' = IF elUI.created THEN elUI
               ELSE [created |-> TRUE, items |-> elItems, setting |-> elSetting]
    /\ UNCHANGED <<elItems, elSetting, notElemVars>>

InitElem == FilterIdle /\ PollIdle /\ ToolsIdle

NextElem ==
    \/ \E its \in ItemArrays, setting \in Settings : SetOptions(its, setting)
    \/ GetOrCreateNamedBitSetFilterUI

SpecElem == InitElem /\ [][NextElem]_vars

(***************************************************************************)
(* INPBreakdown: hasAskAiSupport, createOverlays, renderContent.           *)
(***************************************************************************)
Micros == 0..MaxMicro
InteractionEvents ==
    [ts : Micros, inputDelay : Micros, mainThreadHandling : Micros, presentationDelay : Micros]
\* the models the component may be given: none, one without interaction, one with an event
InpModels ==
    {NoModel, [present |-> TRUE, hasEvent |-> FALSE, event |-> NoEvent]}
        \cup {[present |-> TRUE, hasEvent |-> TRUE, event |-> e] : e \in InteractionEvents}

notInpVars == <<uiVars, pollVars, actVars, elemVars, shotVars, textVars, showVars>>

\* Trace.Helpers.Timing.traceWindowFromMicroSeconds(min, max)
traceWindowFromMicroSeconds(min, max) == [min |-> min, max |-> max, range |-> max - min]

\* three sections of which the second starts where the first starts
allSectionsFromEventStart(event) ==
    LET p1 == traceWindowFromMicroSeconds(event.ts, event.ts + event.inputDelay)
        p2 == traceWindowFromMicroSeconds(p1.min, p1.min + event.mainThreadHandling)
        p3 == traceWindowFromMicroSeconds(p2.max, p2.max + event.presentationDelay)
    IN  << [bounds |-> p1, label |-> "inputDelay", showDuration |-> TRUE],
           [bounds |-> p2, label |-> "processingDuration", showDuration |-> TRUE],
           [bounds |-> p3, label |-> "presentationDelay", showDuration |-> TRUE] >>

\* the three sections, in the order of the array literal
allSections(event) ==
    LET p1 == traceWindowFromMicroSeconds(event.ts, event.ts + event.inputDelay)
        p2 == traceWindowFromMicroSeconds(p1.max, p1.max + event.mainThreadHandling)
        p3 == traceWindowFromMicroSeconds(p2.max, p2.max + event.presentationDelay)
    IN  << [bounds |-> p1, label |-> "inputDelay", showDuration |-> TRUE],
           [bounds |-> p2, label |-> "processingDuration", showDuration |-> TRUE],
           [bounds |-> p3, label |-> "presentationDelay", showDuration |-> TRUE] >>

\* a builder that includes the subparts up to the index
createOverlaysUpToSubpart(event, subpartIndex) ==
    << [type |-> "TIMESPAN_BREAKDOWN",
        sections |-> IF subpartIndex # -1
                     THEN SubSeq(allSections(event), 1, subpartIndex + 1)
                     ELSE allSections(event),
        renderLocation |-> "BELOW_EVENT",
        entry |-> event] >>

\* #createOverlaysForSbupart(event, subpartIndex); sections[subpartIndex] counts from 0
createOverlaysForSbupart(event, subpartIndex) ==
    << [type |-> "TIMESPAN_BREAKDOWN",
        sections |-> IF subpartIndex # -1
                     THEN << allSections(event)[subpartIndex + 1] >>
                     ELSE allSections(event),
        renderLocation |-> "BELOW_EVENT",
        entry |-> event] >>

\* a builder that moves the event to the end of its input delay
eventAdvanced(event) == [event EXCEPT !.ts = event.ts + event.inputDelay]

\* the event after the component read it: ts and the three durations are read, none is
\* assigned
eventRead(event) == event

\* the model after a call that found an event in it
modelRead(model) ==
    IF model.present /\ model.hasEvent
    THEN [model EXCEPT !.event = eventRead(model.event)]
    ELSE model

\* the insight is given its model (BaseInsightComponent)
SetModel(model) ==
    /\ inpModel' = model
    /\ inpOp' = "setModel"
    /\ inpOverlays' = <<>>
    /\ inpRows' = <<>>
    /\ inpAskAi' = "none"
    /\ UNCHANGED notInpVars

\* hasAskAiSupport()
HasAskAiSupport ==
    /\ inpAskAi' = BoolStr(inpModel.present /\ inpModel.hasEvent)
    /\ inpOp' = "hasAskAiSupport"
    /\ UNCHANGED <<inpModel, inpOverlays, inpRows, notInpVars>>

\* createOverlays()
CreateOverlays ==
    /\ inpOverlays' = IF inpModel.present /\ inpModel.hasEvent
                      THEN createOverlaysForSbupart(inpModel.event, -1)
                      ELSE <<>>
    /\ inpModel' = modelRead(inpModel)
    /\ inpOp' = "createOverlays"
    /\ UNCHANGED <<inpRows, inpAskAi, notInpVars>>

\* renderContent(): the rows of the table, or none under the 'no interactions' message
RenderContent ==
    /\ inpRows' =
           IF inpModel.present /\ inpModel.hasEvent
           THEN LET event == inpModel.event
                IN  << [label |-> "inputDelay", micros |-> event.inputDelay,
                        overlays |-> createOverlaysForSbupart(event, 0)],
                       [label |-> "processingDuration", micros |-> event.mainThreadHandling,
                        overlays |-> createOverlaysForSbupart(event, 1)],
                       [label |-> "presentationDelay", micros |-> event.presentationDelay,
                        overlays |-> createOverlaysForSbupart(event, 2)] >>
           ELSE <<>>
    /\ inpModel' = modelRead(inpModel)
    /\ inpOp' = "renderContent"
    /\ UNCHANGED <<inpOverlays, inpAskAi, notInpVars>>

InitInp == FilterIdle /\ PollIdle /\ ToolsIdle

NextInp ==
    \/ \E model \in InpModels : SetModel(model)
    \/ HasAskAiSupport
    \/ CreateOverlays
    \/ RenderContent

SpecInp == InitInp /\ [][NextInp]_vars

(***************************************************************************)
(* ScreenshotError: the three factories and toMiloSummary.  A text is held  *)
(* as its length, a base64 image as its data URL prefix, if any, and data.  *)
(* A factory call reads nothing that an earlier call left behind, so the    *)
(* model follows one call of a factory and the summaries of its object.    *)
(***************************************************************************)
\* static readonly SUMMARY_LENGTH_CUTOFF
SUMMARY_LENGTH_CUTOFF == 3900
\* 'The max length of the summary is 4000'
MaxSummaryLength == 4000
\* '<pre>'
PreOpenLen == 5
\* '</pre><p>Screenshot generated (see below)</p>'
GeneratedTailLen == 45
\* '</pre><p>Unexpected error. See inspected and DevTools pages screenshots below.</p>'
UnexpectedTailLen == 82
\* the separator of two line feeds
SeparatorLen == 2

\* lengths of texts: short ones, ones around the cutoff, and one of twice the cutoff
TextLens ==
    (0..LenSpread)
        \cup ((SUMMARY_LENGTH_CUTOFF - LenSpread)..(SUMMARY_LENGTH_CUTOFF + LenSpread))
        \cup {SUMMARY_LENGTH_CUTOFF + SUMMARY_LENGTH_CUTOFF}
Errors == [messageLen : TextLens, stackLen : TextLens, innerLen : {0, LenSpread}]

DataUrlPrefix == "data:image/png;base64,"
Images ==
    {NoImage}
        \cup {[given |-> TRUE, text |-> t] :
                 t \in {<<>>, <<DataUrlPrefix>>, <<"iVBOR">>, <<DataUrlPrefix, "iVBOR">>,
                        <<"R0lGO">>}}

notShotVars == <<uiVars, pollVars, actVars, elemVars, inpVars, textVars, showVars>>

\* [a, b, c].filter(x => x).join(two line feeds), on lengths: an absent or empty text is
\* dropped
joinedLen(a, b, c) ==
    LET n == Cardinality({i \in 1..3 : <<a, b, c>>[i] > 0})
    IN  a + b + c + (IF n > 1 THEN (n - 1) * SeparatorLen ELSE 0)

\* text.slice(0, end), on lengths
sliceLen(len, end) == IF len < end THEN len ELSE end

\* !image: undefined and the empty string are falsy
falsyImage(image) == ~image.given \/ image.text = <<>>

\* base64Image.replace(/^data:image\/png;base64,/, '')
withoutDataUrlPrefix(text) ==
    IF text # <<>> /\ text[1] = DataUrlPrefix THEN Tail(text) ELSE text

\* saveArtifact(base64Image): the path is the tmp folder and the hash of the data
saveArtifact(image) == <<"tmpdir", "sha256", withoutDataUrlPrefix(image.text)>>

\* stashArtifact(originalFile, tag): the path is the tmp folder and the tagged name
stashArtifact(tag) == <<"tmpdir", tag>>

\* new ScreenshotError(screenshots, message, cause, screenshotPath), with the lengths of
\* the message argument and of the cause's message, stack and cause's message
NewScreenshotError(keys, paths, messageArgLen, cause, causeName) ==
    [class |-> "ScreenshotError", original |-> FALSE, keys |-> keys, paths |-> paths,
     messageLen |-> joinedLen(messageArgLen, cause.messageLen, cause.innerLen),
     stackLen |-> cause.stackLen, cause |-> causeName]

\* the Error the factory was given, handed back as it is
OriginalError(error) ==
    [class |-> "Error", original |-> TRUE, keys |-> {}, paths |-> {},
     messageLen |-> error.messageLen, stackLen |-> error.stackLen, cause |-> "undefined"]

\* a test that finds no artifacts only when both images are missing
noArtifactsWhenBothMissing(inspected, devtools) == falsyImage(inspected) /\ falsyImage(devtools)

\* if (!inspectedPageScreenshot || !devToolsPageScreenshot)
noArtifacts(inspected, devtools) == falsyImage(inspected) \/ falsyImage(devtools)

\* a summary that cuts the message before the stack is appended
toMiloSummaryCutsMessageOnly(keys, messageLen, stackLen) ==
    IF "expected_image" \in keys THEN 0
    ELSE IF "generated" \in keys
         THEN PreOpenLen + sliceLen(messageLen, SUMMARY_LENGTH_CUTOFF) + GeneratedTailLen
         ELSE PreOpenLen + sliceLen(messageLen, SUMMARY_LENGTH_CUTOFF) + SeparatorLen
                  + stackLen + UnexpectedTailLen

\* toMiloSummary(): the length of the summary
toMiloSummary(keys, messageLen, stackLen) ==
    IF "expected_image" \in keys THEN 0
    ELSE IF "generated" \in keys
         THEN PreOpenLen + sliceLen(messageLen, SUMMARY_LENGTH_CUTOFF) + GeneratedTailLen
         ELSE PreOpenLen
                  + sliceLen(messageLen + SeparatorLen + stackLen, SUMMARY_LENGTH_CUTOFF)
                  + UnexpectedTailLen

\* ScreenshotError.fromGeneratedScreenshot(message, generatedImgPath)
FromGeneratedScreenshot(messageLen) ==
    /\ shotObj.class = "none"
    /\ shotOp' = "fromGeneratedScreenshot"
    /\ shotError' = NoError
    /\ shotArgs' = [inspected |-> NoImage, devtools |-> NoImage]
    /\ shotSaved' = {stashArtifact("generated")}
    /\ shotObj' = NewScreenshotError({"generated"}, shotSaved', messageLen, NoError,
                                     "undefined")
    /\ shotSummaryLen' = -1
    /\ UNCHANGED notShotVars

\* ScreenshotError.fromScreenshotAssertionError(error, golden, generated, diff)
FromScreenshotAssertionError(error) ==
    /\ shotObj.class = "none"
    /\ shotOp' = "fromScreenshotAssertionError"
    /\ shotError' = error
    /\ shotArgs' = [inspected |-> NoImage, devtools |-> NoImage]
    /\ shotSaved' = {stashArtifact("expected"), stashArtifact("actual"), stashArtifact("diff")}
    /\ shotObj' = NewScreenshotError({"expected_image", "actual_image", "image_diff"},
                                     shotSaved', 0, error, "error")
    /\ shotSummaryLen' = -1
    /\ UNCHANGED notShotVars

\* ScreenshotError.fromBase64Images(error, inspectedPageScreenshot, devToolsPageScreenshot)
FromBase64Images(error, inspected, devtools) ==
    /\ shotObj.class = "none"
    /\ shotOp' = "fromBase64Images"
    /\ shotError' = error
    /\ shotArgs' = [inspected |-> inspected, devtools |-> devtools]
    /\ IF noArtifacts(inspected, devtools)
       THEN /\ shotSaved' = {}
            /\ shotObj' = OriginalError(error)
       ELSE /\ shotSaved' = {saveArtifact(inspected), saveArtifact(devtools)}
            /\ shotObj' = NewScreenshotError({"inspectedPage", "devToolsPage"}, shotSaved',
                                             0, error, "error")
    /\ shotSummaryLen' = -1
    /\ UNCHANGED notShotVars

\* toMiloSummary() on the ScreenshotError a factory returned
ToMiloSummary ==
    /\ shotObj.class = "ScreenshotError"
    /\ shotOp' = "toMiloSummary"
    /\ shotSummaryLen' = toMiloSummary(shotObj.keys, shotObj.messageLen, shotObj.stackLen)
    /\ UNCHANGED <<shotError, shotArgs, shotObj, shotSaved, notShotVars>>

InitShot == FilterIdle /\ PollIdle /\ ToolsIdle

NextShot ==
    \/ \E len \in TextLens : FromGeneratedScreenshot(len)
    \/ \E error \in Errors : FromScreenshotAssertionError(error)
    \/ \E error \in Errors, inspected \in Images, devtools \in Images :
           FromBase64Images(error, inspected, devtools)
    \/ ToMiloSummary

SpecShot == InitShot /\ [][NextShot]_vars

(***************************************************************************)
(* TextFilterUI: completions and setSuggestionProvider.                    *)
(***************************************************************************)
Providers == {"provider1", "provider2"}
Requests == [expression : {"", "a", "a b"}, prefix : {"", "b"},
             force : {"undefined", "false", "true"}]

notTextVars == <<uiVars, pollVars, actVars, elemVars, inpVars, shotVars, showVars>>

\* a delegation that drops the force argument
completionsWithoutForce(provider, request) ==
    IF provider # "null"
    THEN [provider |-> provider, expression |-> request.expression,
          prefix |-> request.prefix, force |-> "undefined", suggestions |-> "provided"]
    ELSE [NoCompletion EXCEPT !.suggestions = "empty"]

\* completions(expression, prefix, force): the call of the provider and what it yields,
\* or the empty list without a call
completions(provider, request) ==
    IF provider # "null"
    THEN [provider |-> provider, expression |-> request.expression,
          prefix |-> request.prefix, force |-> request.force, suggestions |-> "provided"]
    ELSE [NoCompletion EXCEPT !.suggestions = "empty"]

\* the ToolbarFilter asks for completions
Completions(request) ==
    /\ textOp' = "completions"
    /\ textRequest' = request
    /\ textCompletion' = completions(suggestionProvider, request)
    /\ UNCHANGED <<suggestionProvider, notTextVars>>

\* setSuggestionProvider(suggestionProvider)
SetSuggestionProvider(provider) ==
    /\ textOp' = "setSuggestionProvider"
    /\ suggestionProvider' = provider
    /\ UNCHANGED <<textRequest, textCompletion, notTextVars>>

InitText == FilterIdle /\ PollIdle /\ ToolsIdle

NextText ==
    \/ \E request \in Requests : Completions(request)
    \/ \E provider \in Providers : SetSuggestionProvider(provider)

SpecText == InitText /\ [][NextText]_vars

(***************************************************************************)
(* FilterBar as a widget: setEnabled, the state setting, wasShown and      *)
(* updateFilterBar.  Widget.show, showWidget and hideWidget belong to the  *)
(* Widget base class: showWidget() marks the widget shown and, when it was *)
(* not shown before, calls wasShown() on it before it returns.             *)
(***************************************************************************)
MaxNested == 3

notShowVars == <<uiVars, pollVars, actVars, elemVars, inpVars, shotVars, textVars>>

\* FilterBar.alwaysShowFilters is declared and never assigned
alwaysShowFilters == FALSE

\* a visible() that ignores whether the bar is enabled
visibleWhenToggled == alwaysShowFilters \/ stateSetting

\* FilterBar.visible()
visible == alwaysShowFilters \/ (stateSetting /\ enabled)

\* an updateFilterBar() that does not look at showingWidget
updateFilterBarReentrant(log, shown) ==
    IF ~parentWidget'
    THEN /\ showLog' = log
         /\ widgetShown' = shown
         /\ UNCHANGED <<showingWidget, showPc>>
    ELSE IF visible'
         THEN /\ showLog' = Append(log, "showWidget")
              /\ widgetShown' = TRUE
              /\ IF shown
                 THEN showingWidget' = "false" /\ showPc' = "idle"
                 ELSE showingWidget' = "true" /\ showPc' = "showing"
         ELSE /\ showLog' = Append(log, "hideWidget")
              /\ widgetShown' = FALSE
              /\ UNCHANGED <<showingWidget, showPc>>

\* FilterBar.updateFilterBar(), run after the caller's own assignments, by a call that
\* found log in the call log and the widget shown or not
updateFilterBar(log, shown) ==
    IF ~parentWidget' \/ showingWidget = "true"
    THEN /\ showLog' = log
         /\ widgetShown' = shown
         /\ UNCHANGED <<showingWidget, showPc>>
    ELSE IF visible'
         THEN /\ showLog' = Append(log, "showWidget")
              /\ widgetShown' = TRUE
              /\ IF shown
                 THEN showingWidget' = "false" /\ showPc' = "idle"
                 ELSE showingWidget' = "true" /\ showPc' = "showing"
         ELSE /\ showLog' = Append(log, "hideWidget")
              /\ widgetShown' = FALSE
              /\ UNCHANGED <<showingWidget, showPc>>

\* a call that arrives from outside starts a new call log; one that arrives while
\* showWidget() runs is recorded and adds to the log of the call in progress
Arrives(op) ==
    /\ showOp' = op
    /\ IF showPc = "showing"
       THEN Len(nestedCalls) < MaxNested /\ nestedCalls' = Append(nestedCalls, op)
       ELSE nestedCalls' = <<>>

logAtEntry == IF showPc = "showing" THEN showLog ELSE <<>>

\* Widget.show(parentElement): the bar gets its parent widget and is shown, wasShown()
\* runs
Show ==
    /\ ~parentWidget /\ showPc = "idle"
    /\ Arrives("show")
    /\ parentWidget' = TRUE
    /\ UNCHANGED <<enabled, stateSetting, notShowVars>>
    /\ updateFilterBar(<<"show">>, TRUE)

\* FilterBar.setEnabled(value)
SetEnabled(value) ==
    /\ Arrives("setEnabled")
    /\ enabled' = value
    /\ UNCHANGED <<stateSetting, parentWidget, notShowVars>>
    /\ updateFilterBar(logAtEntry, widgetShown)

\* stateSetting.set(value): the listener the constructor registered runs
\* updateFilterBar
StateSettingSet(value) ==
    /\ Arrives("settingChanged")
    /\ stateSetting' = value
    /\ UNCHANGED <<enabled, parentWidget, notShowVars>>
    /\ updateFilterBar(logAtEntry, widgetShown)

\* FilterBar.wasShown()
WasShown ==
    /\ Arrives("wasShown")
    /\ UNCHANGED <<enabled, stateSetting, parentWidget, notShowVars>>
    /\ updateFilterBar(logAtEntry, widgetShown)

\* the showWidget() that updateFilterBar called returns: showingWidget = false
ShowWidgetReturns ==
    /\ showPc = "showing"
    /\ showPc' = "idle"
    /\ showingWidget' = "false"
    /\ showOp' = "showWidgetReturns"
    /\ UNCHANGED <<enabled, stateSetting, parentWidget, widgetShown, showLog, nestedCalls,
                   notShowVars>>

InitShow == FilterIdle /\ PollIdle /\ ToolsIdle

NextShow ==
    \/ Show
    \/ \E value \in BOOLEAN : SetEnabled(value)
    \/ \E value \in BOOLEAN : StateSettingSet(value)
    \/ WasShown
    \/ ShowWidgetReturns

SpecShow == InitShow /\ [][NextShow]_vars

(***************************************************************************)
(* Properties.                                                             *)
(***************************************************************************)
Count(seq, x) == Cardinality({i \in 1..Len(seq) : seq[i] = x})

Activation == {"click", "key"}

\* C1: after construction and after every click, keyboard activation, reset() or change
\* of the backing setting, the selected set is not empty, and if it holds the 'all'
\* sentinel it holds nothing else.
C1_AllSentinelExclusive ==
    /\ allowedTypes # {}
    /\ ALL_TYPES \in allowedTypes => allowedTypes = {ALL_TYPES}

\* the backing setting was set to 'all' together with a specific type
C1_Witness ==
    /\ lastOp.op = "setting"
    /\ settingValue = {ALL_TYPES, items[1]}
    /\ lastOp.before = {items[1], items[2]}
    /\ allowedTypes = {ALL_TYPES}

\* C2: after the 'all' bit is clicked, with or without the multi-select modifier, or
\* reset() is called, the selected set is exactly {all}, every other bit is unselected
\* and isActive() is false.
C2_SelectAllClears ==
    (lastOp.op = "reset" \/ (lastOp.op \in Activation /\ lastOp.target = ALL_TYPES))
        => /\ allowedTypes = {ALL_TYPES}
           /\ \A i \in BitIndex : selected[i] <=> typeFilterElements[i] = ALL_TYPES
           /\ ~NamedBitSetIsActive

\* 'all' was clicked with the modifier held while two types were selected
C2_Witness ==
    /\ lastOp.op = "click"
    /\ lastOp.target = ALL_TYPES
    /\ lastOp.toggle
    /\ hasSetting
    /\ lastOp.before = {items[1], items[2]}
    /\ allowedTypes = {ALL_TYPES}

\* C3, as stated: after a click on a bit, the bit is selected if and only if it was not
\* selected before the click.
C3_ClickToggles ==
    lastOp.op = "click"
        => (selected[indexOf(lastOp.target)] <=> lastOp.target \notin lastOp.before)

\* C3, amended: a click with the multi-select modifier on a bit other than 'all' leaves
\* the bit selected if and only if it was not selected before; every other click leaves
\* the clicked bit selected.
C3_ClickTogglesOrSelects ==
    lastOp.op = "click"
        => IF lastOp.toggle /\ lastOp.target # ALL_TYPES
           THEN selected[indexOf(lastOp.target)] <=> lastOp.target \notin lastOp.before
           ELSE selected[indexOf(lastOp.target)]

\* a selected type was clicked with the modifier held and is unselected now
C3_Witness ==
    /\ lastOp.op = "click"
    /\ lastOp.toggle
    /\ lastOp.target = items[1]
    /\ lastOp.before = {items[1], items[2]}
    /\ ~selected[indexOf(items[1])]
    /\ selected[indexOf(items[2])]

\* C4: every click on a bit makes the NamedBitSetFilterUI dispatch exactly one
\* FILTER_CHANGED event, with or without the modifier, with or without a backing
\* setting, whether or not the selection changes.
C4_OneEventPerClick ==
    lastOp.op \in Activation => Count(dispatched, <<"FILTER_CHANGED", BITS>>) = 1

\* a click that left the selection as it was, on a filter with a backing setting
C4_Witness ==
    /\ lastOp.op = "click"
    /\ hasSetting
    /\ lastOp.toggle
    /\ lastOp.before = allowedTypes
    /\ Count(dispatched, <<"FILTER_CHANGED", BITS>>) = 1

\* C5: CheckboxFilterUI.isActive() is true exactly when the checkbox's checked state
\* equals the activeWhenChecked argument, an omitted argument counting as false.
C5_CheckboxActivePolarity ==
    CheckboxIsActive <=> (checked <=> activeWhenCheckedArg = "true")

\* setChecked unchecked a checkbox built without the argument: the filter is active
C5_Witness ==
    /\ lastOp.op = "setChecked"
    /\ activeWhenCheckedArg = "undefined"
    /\ ~checked
    /\ CheckboxIsActive

\* C6: accept(typeName) is true if and only if the 'all' sentinel or typeName is in
\* the selected set, isActive() is true if and only if the sentinel is not selected,
\* and so a filter that is not active accepts every type name.
C6_AcceptAndActive ==
    /\ \A t \in TypeNames : accept(t) <=> (ALL_TYPES \in allowedTypes \/ t \in allowedTypes)
    /\ NamedBitSetIsActive <=> ALL_TYPES \notin allowedTypes
    /\ ~NamedBitSetIsActive => \A t \in TypeNames : accept(t)

\* reset() made an active filter inactive, and it accepts a type it has no bit for
C6_Witness ==
    /\ lastOp.op = "reset"
    /\ lastOp.before = {items[1]}
    /\ ~NamedBitSetIsActive
    /\ accept(OtherType)

\* the handler's dispatches start with filter f's FILTER_CHANGED
Fired(f) == dispatched # <<>> /\ dispatched[1] = <<"FILTER_CHANGED", f>>

\* C7, as stated: for every FILTER_CHANGED of a filter that was added with addFilter the
\* FilterBar dispatches exactly one CHANGED, after it has set the button's checked
\* state to hasActiveFilter().
C7_OneChangedPerFilterChanged ==
    \A f \in FilterIds :
        (Fired(f) /\ listeners[f] > 0)
            => /\ dispatched = dispatchEventToListeners(f, 1, hasActiveFilter)
               /\ filterButtonChecked = hasActiveFilter

\* C7, amended: for every FILTER_CHANGED of a filter the FilterBar dispatches one
\* CHANGED per addFilter call made with that filter, exactly one for a filter added
\* once, each right after it has set the button's checked state to hasActiveFilter().
C7_OneChangedPerAddFilter ==
    \A f \in FilterIds :
        Fired(f)
            => /\ Count(dispatched, <<"CHANGED", "FilterBar">>) = listeners[f]
               /\ \A i \in 1..Len(dispatched) :
                      dispatched[i] = <<"CHANGED", "FilterBar">>
                          => /\ i > 1
                             /\ dispatched[i - 1] = <<"setChecked", BoolStr(hasActiveFilter)>>
               /\ listeners[f] > 0 => filterButtonChecked = hasActiveFilter

\* the checkbox, added once, changed: one button update, then one CHANGED
C7_Witness ==
    /\ lastOp.op = "change"
    /\ listeners[CHECKBOX] = 1
    /\ hasActiveFilter
    /\ dispatched = << <<"FILTER_CHANGED", CHECKBOX>>, <<"setChecked", "true">>,
                       <<"CHANGED", "FilterBar">> >>

Called == callKind \in CallKinds

\* how many attempts options.tries allows
Allowed == IF optTries > 0 THEN optTries ELSE 0

AllFalsy == \A i \in 1..Len(attempts) : ~Truthy(attempts[i])

\* C8: waitForFunctionWithTries(fn, {tries: n}) invokes fn at most n times, not at all
\* when n <= 0, stops at the first attempt whose result is truthy and returns that
\* result.
C8_AtMostNTries ==
    Called
        => /\ fnCalls <= Allowed
           /\ Len(attempts) <= fnCalls
           /\ \A i \in 1..Len(attempts) :
                  Truthy(attempts[i])
                      => /\ i = Len(attempts)
                         /\ fnCalls = i
                         /\ pc = "done"
                         /\ result = attempts[i]

\* the second of three allowed attempts found a handle, and the call returned it
C8_Witness ==
    /\ callKind = "waitForFunctionWithTries"
    /\ optTries = 3
    /\ attempts = <<"false", "handle2">>
    /\ fnCalls = 2
    /\ pc = "done"
    /\ result = "handle2"

\* C9: when each of the n allowed attempts yielded a falsy result, the loop ends after
\* the n-th attempt and the call resolves to undefined; it does not throw.
C9_ExhaustedYieldsUndefined ==
    (Called /\ Len(attempts) = Allowed /\ AllFalsy /\ inFlight = 0)
        => /\ pc \in {"timeout", "loop", "done"}
           /\ pc = "loop" => ~loopContinues(tries, optTries)
           /\ pc = "done" => result = "undefined" /\ fnCalls = Allowed

\* waitForWithTries found no element in two attempts and resolved to undefined
C9_Witness ==
    /\ callKind = "waitForWithTries"
    /\ optTries = 2
    /\ attempts = <<"undefined", "undefined">>
    /\ pc = "done"
    /\ result = "undefined"

\* C10: attempt k+1 starts only after attempt k has resolved and a 100 ms timeout that
\* followed it has elapsed; no two attempts of one call are in flight at once.
C10_SequentialFixedDelay ==
    /\ inFlight <= 1
    /\ pc = "fn" => /\ inFlight = 1
                    /\ Len(attempts) = fnCalls - 1
                    /\ fnCalls > 1 => startGap >= 100
    /\ pc # "fn" => inFlight = 0

\* the second attempt is in flight, started 100 ms after the first resolved
C10_Witness ==
    /\ pc = "fn"
    /\ fnCalls = 2
    /\ Len(attempts) = 1
    /\ startGap = 100

\* C11: a call made without options has no cap that it reaches: it never resolves to
\* undefined and never leaves the loop while its attempts are falsy, a truthy attempt is
\* the last one and its value is what the call returns, and after each falsy attempt the
\* next attempt eventually starts.
C11_RetriesIndefinitely ==
    /\ [](defaulted
             => /\ result # "undefined"
                /\ pc = "loop" => loopContinues(tries, optTries)
                /\ pc = "done" => /\ attempts # <<>>
                                  /\ Truthy(result)
                                  /\ result = attempts[Len(attempts)]
                /\ \A i \in 1..Len(attempts) :
                       Truthy(attempts[i]) => /\ i = Len(attempts)
                                              /\ pc = "done"
                                              /\ result = attempts[i])
    /\ \A k \in 1..(MaxCalls - 1) :
           (defaulted /\ pc = "timeout" /\ fnCalls = k)
               ~> (defaulted /\ pc = "fn" /\ fnCalls = k + 1)

\* a call without options went on after three falsy attempts and returned the handle that
\* its fourth attempt found
C11_Witness ==
    /\ defaulted
    /\ callKind = "waitForFunctionWithTries"
    /\ attempts = <<"false", "null", "undefined", "handle1">>
    /\ pc = "done"
    /\ result = "handle1"

ActCalled == actKind \in SelectorActions \cup ElementActions

\* C12: in performActionOnSelector an exception of the action or of drainTaskQueue ends
\* the attempt without ending the call; every attempt acts on the handle of a waitFor of
\* its own; the handle returned is the one of the last attempt, the only attempt whose
\* action and drainTaskQueue both completed.  clickElement and hoverElement make every
\* attempt on the handle they were given, without any query.
C12_RetriesWithFreshHandle ==
    ActCalled
        => /\ actPc \in {"waitFor", "action", "drain", "timeout", "done"}
           /\ \A i \in 1..Len(actLog) :
                  /\ actLog[i].query = (IF actKind \in SelectorActions THEN i ELSE 0)
                  /\ actKind \in ElementActions => actLog[i].handle = actElement
                  /\ actLog[i].outcome = "ok" <=> (i = Len(actLog) /\ actPc = "done")
           /\ queries = (IF actKind \in ElementActions THEN 0
                         ELSE Len(actLog) + (IF actPc \in {"action", "drain"} THEN 1 ELSE 0))
           /\ actPc = "done"
                  => /\ actLog # <<>>
                     /\ returned = (IF actKind \in SelectorActions
                                    THEN actLog[Len(actLog)].handle ELSE NoHandle)

\* click(selector): the action threw on the first node, the page rendered another node,
\* the second attempt queried again and returned the handle of that node
C12_Witness ==
    /\ actKind = "click"
    /\ actPc = "done"
    /\ Len(actLog) = 2
    /\ actLog[1].outcome = "actionThrew"
    /\ actLog[2].outcome = "ok"
    /\ actLog[1].handle # actLog[2].handle
    /\ returned = actLog[2].handle

\* C13: once the options of a NamedBitSetFilterUIElement were set to items that differ
\* from the items it had, or to another setting, the element holds the new options and
\* the user interface it hands out from then on was built from them.
C13_DifferentOptionsClearUI ==
    elLast.differ
        => /\ elItems = elLast.items
           /\ elSetting = elLast.setting
           /\ elLast.op = "options" => ~elUI.created
           /\ elUI.created => elUI.items = elLast.items /\ elUI.setting = elLast.setting

ReadOps == {"hasAskAiSupport", "createOverlays", "renderContent"}

\* C14: a step of hasAskAiSupport(), createOverlays() or renderContent(), whatever was
\* called before it, leaves the model and the ts, inputDelay, mainThreadHandling and
\* presentationDelay of its longestInteractionEvent as they were.
C14_ModelReadOnly ==
    [][inpOp' \in ReadOps => inpModel' = inpModel]_vars

\* the overlays and the rows were both built from a model whose event has an input delay,
\* and the model still holds that event
C14_Witness ==
    /\ inpOp = "renderContent"
    /\ inpModel.hasEvent
    /\ inpModel.event.ts = 1
    /\ inpModel.event.inputDelay = 2
    /\ Len(inpOverlays) = 1
    /\ inpOverlays[1].entry = inpModel.event
    /\ Len(inpRows) = 3
    /\ inpAskAi = "true"

\* C15: the overlay built for index -1 has the sections input delay, processing duration,
\* presentation delay in that order, and for i in {0,1,2} the overlay built for index i
\* (the one of table row i) has one section, equal to the i-th of those.
C15_SubpartIndexSelects ==
    (inpOverlays # <<>> /\ inpRows # <<>>)
        => /\ Len(inpOverlays) = 1
           /\ [k \in 1..Len(inpOverlays[1].sections) |-> inpOverlays[1].sections[k].label]
                  = <<"inputDelay", "processingDuration", "presentationDelay">>
           /\ \A i \in 0..2 :
                  /\ Len(inpRows[i + 1].overlays) = 1
                  /\ inpRows[i + 1].overlays[1].sections = << inpOverlays[1].sections[i + 1] >>

\* the overlays of createOverlays() and the rows of renderContent() for an event whose
\* three durations differ from each other
C15_Witness ==
    /\ inpModel.hasEvent
    /\ inpModel.event.inputDelay = 1
    /\ inpModel.event.mainThreadHandling = 2
    /\ inpModel.event.presentationDelay = 0
    /\ Len(inpOverlays) = 1
    /\ Len(inpRows) = 3
    /\ inpRows[2].overlays[1].sections[1].bounds.range = 2

\* C16: whatever the lengths of the message and of the stack, and for each of the three
\* kinds of screenshots, the summary that toMiloSummary() returns, the cut text with the
\* HTML around it, has at most 4000 characters.
C16_SummaryWithinLimit ==
    shotOp = "toMiloSummary"
        => /\ shotSummaryLen >= 0
           /\ shotSummaryLen <= MaxSummaryLength

\* the summary of an unexpected error whose message and stack are both longer than the
\* cutoff: the cut text and the HTML around it
C16_Witness ==
    /\ shotOp = "toMiloSummary"
    /\ shotObj.keys = {"inspectedPage", "devToolsPage"}
    /\ shotObj.messageLen > SUMMARY_LENGTH_CUTOFF
    /\ shotObj.stackLen > SUMMARY_LENGTH_CUTOFF
    /\ shotSummaryLen = PreOpenLen + SUMMARY_LENGTH_CUTOFF + UnexpectedTailLen

\* C17: fromBase64Images given two screenshots that are not empty returns a new
\* ScreenshotError that holds the saved artifacts of the inspected page and of the
\* DevTools page and has the given error as its cause; given a screenshot that is
\* missing or empty it returns the given error itself and writes no file.
C17_BothScreenshotsOrOriginal ==
    shotOp = "fromBase64Images"
        => IF /\ shotArgs.inspected.given /\ shotArgs.inspected.text # <<>>
              /\ shotArgs.devtools.given /\ shotArgs.devtools.text # <<>>
           THEN /\ shotObj.class = "ScreenshotError"
                /\ ~shotObj.original
                /\ shotObj.keys = {"inspectedPage", "devToolsPage"}
                /\ shotObj.cause = "error"
                /\ shotObj.paths = shotSaved
                /\ shotSaved = {saveArtifact(shotArgs.inspected), saveArtifact(shotArgs.devtools)}
           ELSE /\ shotObj.class = "Error"
                /\ shotObj.original
                /\ shotObj.messageLen = shotError.messageLen
                /\ shotObj.stackLen = shotError.stackLen
                /\ shotSaved = {}

\* two different screenshots, one of them a data URL: the ScreenshotError holds two saved
\* artifacts
C17_Witness ==
    /\ shotOp = "fromBase64Images"
    /\ shotArgs.inspected.text = <<DataUrlPrefix, "iVBOR">>
    /\ shotArgs.devtools.text = <<"R0lGO">>
    /\ shotObj.class = "ScreenshotError"
    /\ Cardinality(shotSaved) = 2
    /\ shotObj.cause = "error"

\* C18: a completions request made while no provider is set calls nothing and yields the
\* empty list; one made after setSuggestionProvider calls the provider set last, with
\* the expression, the prefix and the force argument of the request.
C18_CompletionsDelegate ==
    textOp = "completions"
        => IF suggestionProvider = "null"
           THEN textCompletion.provider = "null" /\ textCompletion.suggestions = "empty"
           ELSE /\ textCompletion.provider = suggestionProvider
                /\ textCompletion.expression = textRequest.expression
                /\ textCompletion.prefix = textRequest.prefix
                /\ textCompletion.force = textRequest.force
                /\ textCompletion.suggestions = "provided"

\* a forced request reached the provider that was set last
C18_Witness ==
    /\ textOp = "completions"
    /\ suggestionProvider = "provider2"
    /\ textRequest = [expression |-> "a b", prefix |-> "b", force |-> "true"]
    /\ textCompletion.provider = "provider2"
    /\ textCompletion.force = "true"

\* the event of the last handler had the platform's modifier key down and no other:
\* Meta on a Mac, Ctrl elsewhere
PlatformModifierOnly ==
    IF isMac
    THEN lastEvent = [NoModifiers EXCEPT !.metaKey = TRUE]
    ELSE lastEvent = [NoModifiers EXCEPT !.ctrlKey = TRUE]

\* the selection is the one before the handler with only the target's membership flipped
\* and 'all' taken out, or {all} if that leaves nothing
TargetFlipped ==
    /\ \A name \in BitNames \ {ALL_TYPES, lastOp.target} :
           name \in allowedTypes <=> name \in lastOp.before
    /\ lastOp.target \in allowedTypes <=> lastOp.target \notin lastOp.before
    /\ ALL_TYPES \in allowedTypes <=> allowedTypes \ {ALL_TYPES} = {}
    /\ allowedTypes \subseteq BitNames

\* C19: after a click or Enter/Space on a bit T other than 'all' with the platform's
\* modifier key (and no other) down, every other bit but 'all' is selected iff it was
\* before, T is selected iff it was not, and 'all' is selected iff no other bit is; the
\* elements' selected state shows exactly that selection.
C19_MultiSelectFlipsOne ==
    (lastOp.op \in Activation /\ PlatformModifierOnly /\ lastOp.target # ALL_TYPES)
        => /\ TargetFlipped
           /\ \A i \in BitIndex : selected[i] <=> typeFilterElements[i] \in allowedTypes

\* with two bits selected, a modifier click on one of them left the other one selected
C19_Witness ==
    /\ lastOp.op = "click"
    /\ PlatformModifierOnly
    /\ lastOp.before = {"xhr", "js"}
    /\ lastOp.target = "js"
    /\ allowedTypes = {"xhr"}

\* C20: a click or Enter/Space on a bit is handled as a multi-select toggle if exactly
\* the platform's modifier key is down (Meta on a Mac, Ctrl elsewhere, no other modifier),
\* and as a plain click, which leaves only the target selected, with every other
\* combination of modifier keys.
C20_MultiSelectIffPlatformModifier ==
    lastOp.op \in Activation
        => /\ lastOp.toggle <=> PlatformModifierOnly
           /\ IF PlatformModifierOnly /\ lastOp.target # ALL_TYPES
              THEN TargetFlipped
              ELSE allowedTypes = {lastOp.target}

\* on a Mac, Enter with Meta and Shift down on a bit next to a selected one was handled as
\* a plain click
C20_Witness ==
    /\ isMac
    /\ lastOp.op = "key"
    /\ lastEvent = [NoModifiers EXCEPT !.metaKey = TRUE, !.shiftKey = TRUE]
    /\ lastOp.before = {"xhr"}
    /\ lastOp.target = "js"
    /\ allowedTypes = {"js"}

\* C21: after a click on a bit T that is not a multi-select click (some modifier
\* combination other than the platform's modifier alone), whatever was selected before and
\* whether T is 'all' or an item, exactly T is selected and no other element shows as
\* selected.
C21_PlainClickSelectsOnlyTarget ==
    (lastOp.op = "click" /\ ~PlatformModifierOnly)
        => /\ allowedTypes = {lastOp.target}
           /\ \A i \in BitIndex : selected[i] <=> typeFilterElements[i] = lastOp.target

\* a plain click on a bit that was selected together with another one left it alone
\* selected
C21_Witness ==
    /\ lastOp.op = "click"
    /\ lastEvent = NoModifiers
    /\ lastOp.before = {"xhr", "js"}
    /\ lastOp.target = "js"
    /\ allowedTypes = {"js"}

\* C22 as stated: after every click, the filter backed by a setting has the selected set
\* of its twin without a setting, and the keys the setting stores are that set.
C22_BackedEqualsUnbacked ==
    (hasSetting /\ lastOp.op \in Activation)
        => /\ allowedTypes = twinTypes
           /\ settingValue = allowedTypes

\* C22: a click on the filter backed by a setting leaves the keys stored in the setting
\* equal to the selected set; it leaves the selected set equal to that of the twin without
\* a setting if the two were equal before the click, and after a click that is not a
\* multi-select click whatever the two were before.
C22_BackedStepsLikeUnbacked ==
    [][(hasSetting /\ lastOp'.op \in Activation)
          => /\ settingValue' = allowedTypes'
             /\ allowedTypes = twinTypes => allowedTypes' = twinTypes'
             /\ ~PlatformModifierOnly' => allowedTypes' = twinTypes']_vars

\* the backed filter and its twin both hold two items after a multi-select click, and the
\* setting stores those two
C22_Witness ==
    /\ hasSetting
    /\ lastOp.op = "click"
    /\ lastOp.toggle
    /\ lastOp.before = {"xhr"}
    /\ allowedTypes = {"xhr", "js"}
    /\ twinTypes = allowedTypes
    /\ settingValue = allowedTypes

\* C23: whenever no handler is running, the filter button is checked if and only if one
\* of the filters that the bar holds is active.
C23_ButtonCheckedIffActive ==
    filterButtonChecked <=> hasActiveFilter

\* C24: once clear() has emptied the bar, a FILTER_CHANGED of a filter that was added
\* before the clear, and not again since, makes the FilterBar dispatch no CHANGED.
C24_ClearedFilterNotForwarded ==
    \A f \in FilterIds :
        (Fired(f) /\ \A i \in 1..Len(filters) : filters[i] # f)
            => Count(dispatched, <<"CHANGED", "FilterBar">>) = 0

BarCalls == {"setEnabled", "settingChanged", "wasShown"}

C26_UpdateNotReentrant ==
    [][/\ (showPc = "showing" /\ showOp' \in BarCalls)
           => /\ showLog' = showLog
              /\ widgetShown' = widgetShown
              /\ showingWidget' = "true" /\ showPc' = "showing"
       /\ (showPc = "showing" /\ showPc' = "idle") => showingWidget' = "false"
       /\ (showPc' = "showing") => showingWidget' = "true"
       /\ ~parentWidget'
           => /\ showLog' = <<>>
              /\ UNCHANGED <<widgetShown, showingWidget, showPc>>]_vars

\* a setEnabled arrived during showWidget() and changed nothing but enabled
C26_Witness ==
    /\ showPc = "showing" /\ showOp = "setEnabled" /\ nestedCalls = <<"setEnabled">>
    /\ ~enabled /\ widgetShown /\ showLog = <<"showWidget">>

\* C27: the three sections of the breakdown follow one another without gap or overlap:
\* the first starts at event.ts and lasts inputDelay, the second starts where the first
\* ends and lasts mainThreadHandling, the third starts where the second ends and lasts
\* presentationDelay, so that it ends at ts + inputDelay + mainThreadHandling +
\* presentationDelay; the overlay of each table row holds the one section with the same
\* bounds.
C27_SectionsContiguous ==
    LET e == inpModel.event
        end1 == e.ts + e.inputDelay
        end2 == end1 + e.mainThreadHandling
        end3 == end2 + e.presentationDelay
        expected == << [min |-> e.ts, max |-> end1, range |-> e.inputDelay],
                       [min |-> end1, max |-> end2, range |-> e.mainThreadHandling],
                       [min |-> end2, max |-> end3, range |-> e.presentationDelay] >>
    IN  /\ inpOverlays # <<>>
            => /\ Len(inpOverlays[1].sections) = 3
               /\ \A i \in 1..3 : inpOverlays[1].sections[i].bounds = expected[i]
               /\ inpOverlays[1].sections[3].bounds.max
                      = e.ts + e.inputDelay + e.mainThreadHandling + e.presentationDelay
        /\ inpRows # <<>>
            => \A i \in 1..3 :
                   /\ Len(inpRows[i].overlays[1].sections) = 1
                   /\ inpRows[i].overlays[1].sections[1].bounds = expected[i]

\* an event at 1 with delays 1, 2 and 1: sections [1,2], [2,4], [4,5], and the rows
C27_Witness ==
    /\ inpModel.present /\ inpModel.hasEvent
    /\ inpModel.event = [ts |-> 1, inputDelay |-> 1, mainThreadHandling |-> 2,
                         presentationDelay |-> 1]
    /\ inpOverlays # <<>>
    /\ inpOverlays[1].sections[2].bounds = [min |-> 2, max |-> 4, range |-> 2]
    /\ inpOverlays[1].sections[3].bounds.max = 5
    /\ inpRows # <<>>
    /\ inpRows[3].overlays[1].sections[1].bounds = [min |-> 4, max |-> 5, range |-> 1]
====
